---- MODULE Spec2Model ----
(***************************************************************************)
(* Model of the market scanner of stock_app.py: get_sp500_tickers,         *)
(* get_market_scanner_data with its nested get_verified_list, and the      *)
(* Market Scanner page that calls it; and of calculate_technicals, as the  *)
(* Stock Analyst page calls it on a price history.  A run of the program   *)
(* shows one of the two pages.                                             *)
(*                                                                         *)
(* Representation.                                                         *)
(*  - A ticker symbol is the sequence of its characters, so that           *)
(*    str.replace('.', '-') is modelled character by character.            *)
(*  - A Close column is a sequence of integer prices; NaN is the price     *)
(*    value of a row without data.                                         *)
(*  - A float is the pair <<n, d>> of the ratio n/d with n, d >= 0; two    *)
(*    pairs are the same float when their cross products agree; <<0, 0>>   *)
(*    is not-a-number (0/0) and <<n, 0>> with n > 0 is +infinity.  On the  *)
(*    series of this model the IEEE results of lines 141-145 order and     *)
(*    compare exactly as these ratios do.                                  *)
(*  - An optional value (Python None / a missing dict key) is <<>>, a      *)
(*    present value v is <<v>>.                                            *)
(***************************************************************************)
EXTENDS Integers, Sequences, FiniteSets, TLC

VARIABLES
    pc,              \* position of the program
    response,        \* what the ticker-universe provider answered
    tickers,         \* get_market_scanner_data: tickers
    data,            \* get_market_scanner_data: data (the downloaded batch)
    fundamentals,    \* what yf.Ticker(t).info answers, per ticker
    i,               \* index of the next ticker of the RSI loop
    rsi_candidates,  \* get_market_scanner_data: rsi_candidates (list of dicts)
    is_oversold,     \* get_verified_list: is_oversold
    sorted_list,     \* get_verified_list: sorted_list (references into rsi_candidates)
    k,               \* index of the next item of the walk over sorted_list
    verified,        \* get_verified_list: verified (references into rsi_candidates)
    fetched,         \* log of the market-cap fetches issued, in order
    oversold_df,     \* get_market_scanner_data: oversold_df
    overbought_df,   \* get_market_scanner_data: overbought_df
    result,          \* the value returned by get_market_scanner_data
    page,            \* what the Market Scanner page shows
    hist,            \* Stock Analyst page: hist (the price history)
    df_tech          \* Stock Analyst page: df_tech

vars == <<pc, response, tickers, data, fundamentals, i, rsi_candidates,
          is_oversold, sorted_list, k, verified, fetched, oversold_df,
          overbought_df, result, page, hist, df_tech>>

-----------------------------------------------------------------------------
(* Program constants *)

RSI_WINDOW == 14
MIN_BARS == 15
OVERSOLD_RSI == 30
OVERBOUGHT_RSI == 70
MAX_RESULTS == 10
MIN_MARKET_CAP == 10000000

(* Bounds of the model *)

\* bars of a generated price series
NBars == 16
\* non-zero price moves inside the trailing window of a generated series
Moves == 10
\* bars of the longest price history given to calculate_technicals
TechBars == 51
\* consecutive rows of such a history whose close moves
Swing == 3

-----------------------------------------------------------------------------
(* Generic helpers *)

Range(s) == {s[n] : n \in 1..Len(s)}

\* the float n/d for n, d >= 0
Ratio(n, d) == <<n, d>>

\* Python None, a missing value
None == <<>>

NaNf == <<0, 0>>
IsNaNf(x) == x = <<0, 0>>

\* x < y on floats that are numbers (not NaN, finite)
Less(x, y) == x[1] * y[2] < y[1] * x[2]

\* x = y on floats that are numbers
Same(x, y) == x[1] * y[2] = y[1] * x[2]

\* float against an integer threshold; every comparison with NaN is false
LtInt(x, n) == ~IsNaNf(x) /\ x[1] < n * x[2]
GtInt(x, n) == ~IsNaNf(x) /\ x[1] > n * x[2]
GeInt(x, n) == ~IsNaNf(x) /\ x[1] >= n * x[2]
LeInt(x, n) == ~IsNaNf(x) /\ x[1] <= n * x[2]

-----------------------------------------------------------------------------
(* RSI, lines 141-145 (and the same five lines 197-201) *)

\* the price of a row that has no data
NaN == -1

\* delta = df['Close'].diff(): absent at the first row and next to a NaN
DeltaIsNaN(close, r) == r = 1 \/ close[r] = NaN \/ close[r - 1] = NaN
Delta(close, r) == close[r] - close[r - 1]

\* delta.where(delta > 0, 0): rows where the condition is false, NaN rows
\* included, become 0
GainInput(close, r) ==
    IF ~DeltaIsNaN(close, r) /\ Delta(close, r) > 0 THEN Delta(close, r) ELSE 0

\* -delta.where(delta < 0, 0)
LossInput(close, r) ==
    IF ~DeltaIsNaN(close, r) /\ Delta(close, r) < 0 THEN 0 - Delta(close, r) ELSE 0

\* the sum of the gain inputs (gains) or of the loss inputs over rows from..to
RECURSIVE SumRows(_, _, _, _)
SumRows(gains, close, from, to) ==
    IF from > to THEN 0
    ELSE (IF gains THEN GainInput(close, to) ELSE LossInput(close, to))
         + SumRows(gains, close, from, to - 1)

\* .rolling(window=14).mean() at row r: absent until 14 rows are behind it
RollingMean(gains, close, r) ==
    IF r < RSI_WINDOW THEN NaNf
    ELSE <<SumRows(gains, close, r - RSI_WINDOW + 1, r), RSI_WINDOW>>

\* float division x / y of non-negative values: x/0 is +inf, 0/0 is NaN
Div(x, y) ==
    IF IsNaNf(x) \/ IsNaNf(y) THEN NaNf
    ELSE Ratio(x[1] * y[2], x[2] * y[1])

\* variant: the value is 100 / (1 + rs)
RSIFromRSComplement(rs) ==
    IF IsNaNf(rs) THEN NaNf
    ELSE IF rs[2] = 0 THEN Ratio(0, 1)
    ELSE Ratio(100 * rs[2], rs[1] + rs[2])

\* 100 - (100 / (1 + rs)): NaN stays NaN, +inf gives 100 - 0
RSIFromRS(rs) ==
    IF IsNaNf(rs) THEN NaNf
    ELSE IF rs[2] = 0 THEN Ratio(100, 1)
    ELSE Ratio(100 * (rs[1] + rs[2]) - 100 * rs[2], rs[1] + rs[2])

\* df['RSI'] at row r
RSI(close, r) ==
    RSIFromRS(Div(RollingMean(TRUE, close, r), RollingMean(FALSE, close, r)))

-----------------------------------------------------------------------------
(* get_sp500_tickers, lines 100-116 *)

\* x.replace('.', '-')
Replace(x) == [n \in 1..Len(x) |-> IF x[n] = "." THEN "-" ELSE x[n]]

\* the fallback list of line 116
DefaultTickers ==
    << <<"A","A","P","L">>, <<"M","S","F","T">>, <<"G","O","O","G","L">>,
       <<"A","M","Z","N">>, <<"N","V","D","A">>, <<"T","S","L","A">>,
       <<"M","E","T","A">>, <<"B","R","K","-","B">>, <<"V">>,
       <<"J","N","J">>, <<"J","P","M">>, <<"X","O","M">> >>

\* the try block of lines 101-113 raises: the request fails, the page has no
\* table, or the first table has no Symbol column
ProviderRaises(resp) ==
    \/ resp.kind = "error"
    \/ resp.tables = <<>>
    \/ "Symbol" \notin DOMAIN resp.tables[1]

\* variant: the except clause returns an empty list
get_sp500_tickers_no_fallback(resp) ==
    IF ProviderRaises(resp) THEN <<>>
    ELSE [n \in 1..Len(resp.tables[1].Symbol) |-> Replace(resp.tables[1].Symbol[n])]

\* lines 100-116: the symbols of the first table, or the fallback list
get_sp500_tickers(resp) ==
    IF ProviderRaises(resp) THEN DefaultTickers
    ELSE [n \in 1..Len(resp.tables[1].Symbol) |-> Replace(resp.tables[1].Symbol[n])]

-----------------------------------------------------------------------------
(* get_market_scanner_data: the RSI loop, lines 128-156 *)

\* data.columns is a MultiIndex (one frame per ticker) or flat (one frame)
HasFrame(batch, ticker) == ~batch.multi \/ ticker \in DOMAIN batch.frames

\* lines 131-136: df = data[ticker].copy(), or df = data
FrameOf(batch, ticker) == IF batch.multi THEN batch.frames[ticker] ELSE batch.frame

\* what one pass of the loop body does with a ticker:
\*   "absent"    line 134, continue
\*   "short"     line 138, continue
\*   "raised"    df['Close'] raises KeyError, line 156, continue
\*   "nan"       line 150, pd.isna(latest_rsi)
\*   "candidate" lines 151-155
TickerOutcome(batch, ticker) ==
    IF ~HasFrame(batch, ticker) THEN "absent"
    ELSE LET df == FrameOf(batch, ticker) IN
         IF df.len < MIN_BARS THEN "short"
         ELSE IF "Close" \notin DOMAIN df THEN "raised"
         ELSE IF IsNaNf(RSI(df.Close, df.len)) THEN "nan"
         ELSE "candidate"

\* line 156, a bare except: every exception of the loop body is caught
LoopCatches(exc) == TRUE

\* the dict appended at lines 151-155
Candidate(batch, ticker) ==
    LET df == FrameOf(batch, ticker) IN
    [Ticker |-> ticker, Price |-> df.Close[df.len], RSI |-> RSI(df.Close, df.len)]

\* rsi_candidates after the loop body has run for ticker
RsiLoopBody(cands, batch, ticker) ==
    IF TickerOutcome(batch, ticker) = "candidate"
    THEN Append(cands, Candidate(batch, ticker))
    ELSE cands

-----------------------------------------------------------------------------
(* get_verified_list, lines 159-182 *)

\* variant: reverse is ignored
SortsBeforeAscending(a, b, oversold) == Less(a.RSI, b.RSI)

\* a sorts strictly before b: key x['RSI'], reverse = not is_oversold
SortsBefore(a, b, oversold) ==
    IF oversold THEN Less(a.RSI, b.RSI) ELSE Less(b.RSI, a.RSI)

\* insert reference x into the sorted references s, after every element that
\* does not sort strictly after it (sorted() is stable, reversed or not)
RECURSIVE InsertRef(_, _, _, _)
InsertRef(s, x, cands, oversold) ==
    IF s = <<>> THEN <<x>>
    ELSE IF SortsBefore(cands[x], cands[Head(s)], oversold) THEN <<x>> \o s
    ELSE <<Head(s)>> \o InsertRef(Tail(s), x, cands, oversold)

RECURSIVE SortRefs(_, _, _)
SortRefs(n, cands, oversold) ==
    IF n = 0 THEN <<>>
    ELSE InsertRef(SortRefs(n - 1, cands, oversold), n, cands, oversold)

\* variant: the descending ranking is the ascending one read backwards
SortedByReversal(cands, oversold) ==
    LET up == SortRefs(Len(cands), cands, TRUE)
    IN IF oversold THEN up ELSE [n \in 1..Len(up) |-> up[Len(up) + 1 - n]]

\* line 161: sorted(candidates, key=..., reverse=not is_oversold), as
\* references (indices) into candidates: the dicts are shared, not copied
Sorted(cands, oversold) == SortRefs(Len(cands), cands, oversold)

\* variant: the filters are "> 30" and "< 70"
PassesRsiFilterInclusive(item, oversold) ==
    IF oversold THEN ~GtInt(item.RSI, OVERSOLD_RSI)
    ELSE ~LtInt(item.RSI, OVERBOUGHT_RSI)

\* variant: only the oversold walk filters on RSI
PassesRsiFilterOversoldOnly(item, oversold) ==
    IF oversold THEN ~GeInt(item.RSI, OVERSOLD_RSI) ELSE TRUE

\* lines 168-169: the item passes the strict RSI filter of the list
PassesRsiFilter(item, oversold) ==
    IF oversold THEN ~GeInt(item.RSI, OVERSOLD_RSI)
    ELSE ~LeInt(item.RSI, OVERBOUGHT_RSI)

\* line 174: info.get('marketCap', 0) or 0
MktCap(info) ==
    LET got == IF "marketCap" \in DOMAIN info THEN info.marketCap ELSE <<0>>
    IN IF got = <<>> \/ got = <<0>> THEN 0 ELSE got[1]

\* variant: the test is ">="
AboveFloorInclusive(mkt_cap) == mkt_cap >= MIN_MARKET_CAP

\* line 177
AboveFloor(mkt_cap) == mkt_cap > MIN_MARKET_CAP

\* variant: the test is ">"
CapReachedOff(nverified) == nverified > MAX_RESULTS

\* line 165
CapReached(nverified) == nverified >= MAX_RESULTS

\* variant: the handler is "except KeyError"
WalkCatchesKeyErrorOnly(exc) == exc = "KeyError"

\* line 180, a bare except: every exception of the fetch is caught
WalkCatches(exc) == TRUE

\* what one pass of the walk does with an item, given len(verified) and the
\* answer of the fundamentals provider for the item's ticker:
\*   "break"   line 165
\*   "filtered" lines 168-169, continue without a fetch
\*   "raised"  the fetch of line 173 raises, line 181, continue
\*   "dropped" line 177 is false
\*   "kept"    lines 178-179
WalkOutcome(item, nverified, oversold, answer) ==
    IF CapReached(nverified) THEN "break"
    ELSE IF ~PassesRsiFilter(item, oversold) THEN "filtered"
    ELSE IF answer.raises THEN "raised"
    ELSE IF AboveFloor(MktCap(answer.info)) THEN "kept"
    ELSE "dropped"

\* item['MarketCap'] = mkt_cap
SetMarketCap(item, mkt_cap) ==
    [f \in DOMAIN item \cup {"MarketCap"} |->
        IF f = "MarketCap" THEN mkt_cap ELSE item[f]]

\* pd.DataFrame(verified): the rows are copies of the dicts as they are now
DataFrame(refs, cands) == [n \in 1..Len(refs) |-> cands[refs[n]]]

-----------------------------------------------------------------------------
(* get_market_scanner_data as a function of what the providers answer *)

\* rsi_candidates after the loop of lines 128-156 has run over u[1..n]
RECURSIVE RsiCandidates(_, _, _)
RsiCandidates(u, batch, n) ==
    IF n = 0 THEN <<>>
    ELSE RsiLoopBody(RsiCandidates(u, batch, n - 1), batch, u[n])

\* the walk of lines 164-181 over the references refs: the candidates (with
\* the market caps it attached) and the references it verified
RECURSIVE WalkFrom(_, _, _, _, _)
WalkFrom(cands, refs, kept, oversold, fund) ==
    IF refs = <<>> THEN <<cands, kept>>
    ELSE LET item == cands[Head(refs)]
             o == WalkOutcome(item, Len(kept), oversold, fund[item.Ticker])
         IN IF o = "break" THEN <<cands, kept>>
            ELSE IF o = "kept"
            THEN WalkFrom([cands EXCEPT ![Head(refs)] =
                              SetMarketCap(item, MktCap(fund[item.Ticker].info))],
                          Tail(refs), Append(kept, Head(refs)), oversold, fund)
            ELSE WalkFrom(cands, Tail(refs), kept, oversold, fund)

\* get_verified_list(candidates, is_oversold): the candidates as the call
\* leaves them, and the DataFrame it returns
get_verified_list(cands, oversold, fund) ==
    LET w == WalkFrom(cands, Sorted(cands, oversold), <<>>, oversold, fund)
    IN <<w[1], DataFrame(w[2], w[1])>>

\* lines 125-187, when no exception escapes
get_market_scanner_data(u, batch, fund) ==
    LET os == get_verified_list(RsiCandidates(u, batch, Len(u)), TRUE, fund)
        ob == get_verified_list(os[1], FALSE, fund)
    IN [oversold |-> os[2], overbought |-> ob[2], count |-> Len(u)]

-----------------------------------------------------------------------------
(* calculate_technicals, lines 191-215 *)
(* The indicator columns SMA50, SMA200 and RSI hold floats as unreduced     *)
(* pairs, as above.  The columns K, D and J hold signed floats in lowest    *)
(* terms: <<n, d>> with d > 0, <<1, 0>> for +inf, <<-1, 0>> for -inf and    *)
(* <<0, 0>> for NaN.  The MACD and Signal_Line columns of lines 203-206     *)
(* are functions of Close alone that nothing else of the function reads;    *)
(* the table of the model does not carry them.                              *)

TECH_MIN_BARS == 50
SMA_FAST == 50
SMA_SLOW == 200
KDJ_WINDOW == 9
KDJ_COM == 2

Abs(n) == IF n < 0 THEN 0 - n ELSE n
Sign(n) == IF n < 0 THEN 0 - 1 ELSE IF n > 0 THEN 1 ELSE 0

RECURSIVE Gcd(_, _)
Gcd(a, b) == IF b = 0 THEN a ELSE Gcd(b, a % b)

RECURSIVE Pow(_, _)
Pow(b, e) == IF e = 0 THEN 1 ELSE b * Pow(b, e - 1)

\* the float n/d for d > 0, in lowest terms
Norm(n, d) == LET g == Gcd(Abs(n), d) IN <<n \div g, d \div g>>

\* float x times the non-zero integer s
Scale(x, s) ==
    IF IsNaNf(x) THEN NaNf
    ELSE IF x[2] = 0 THEN <<Sign(x[1]) * Sign(s), 0>>
    ELSE Norm(x[1] * s, x[2])

\* float x divided by the positive integer s
Over(x, s) ==
    IF IsNaNf(x) THEN NaNf
    ELSE IF x[2] = 0 THEN x
    ELSE Norm(x[1], x[2] * s)

\* float addition: inf + (-inf) is NaN
Plus(x, y) ==
    IF IsNaNf(x) \/ IsNaNf(y) THEN NaNf
    ELSE IF x[2] = 0 /\ y[2] = 0 THEN (IF x[1] = y[1] THEN x ELSE NaNf)
    ELSE IF x[2] = 0 THEN x
    ELSE IF y[2] = 0 THEN y
    ELSE LET l == (x[2] \div Gcd(x[2], y[2])) * y[2]
         IN Norm(x[1] * (l \div x[2]) + y[1] * (l \div y[2]), l)

\* a row of rows from..to of the column holds no price
RECURSIVE AnyNaN(_, _, _)
AnyNaN(col, from, to) ==
    IF from > to THEN FALSE
    ELSE IF col[to] = NaN THEN TRUE
    ELSE AnyNaN(col, from, to - 1)

RECURSIVE SumPrices(_, _, _)
SumPrices(col, from, to) ==
    IF from > to THEN 0 ELSE col[to] + SumPrices(col, from, to - 1)

\* df['Close'].rolling(window=w).mean() at row r (lines 194-195)
SMA(close, w, r) ==
    IF r < w THEN NaNf
    ELSE IF AnyNaN(close, r - w + 1, r) THEN NaNf
    ELSE <<SumPrices(close, r - w + 1, r), w>>

\* df['Low'].rolling(window=9).min() at row r (line 208); NaN when absent
RollingMin(low, r) ==
    IF r < KDJ_WINDOW THEN NaN
    ELSE IF AnyNaN(low, r - KDJ_WINDOW + 1, r) THEN NaN
    ELSE CHOOSE v \in {low[q] : q \in (r - KDJ_WINDOW + 1)..r} :
             \A q \in (r - KDJ_WINDOW + 1)..r : v <= low[q]

\* df['High'].rolling(window=9).max() at row r (line 209); NaN when absent
RollingMax(high, r) ==
    IF r < KDJ_WINDOW THEN NaN
    ELSE IF AnyNaN(high, r - KDJ_WINDOW + 1, r) THEN NaN
    ELSE CHOOSE v \in {high[q] : q \in (r - KDJ_WINDOW + 1)..r} :
             \A q \in (r - KDJ_WINDOW + 1)..r : v >= high[q]

\* line 210: rsv = (Close - low_min) / (high_max - low_min) * 100 at row r;
\* a zero range divides by zero: 0/0 is NaN, x/0 is +inf or -inf
RSV(df, r) ==
    LET lo == RollingMin(df.Low, r)
        hi == RollingMax(df.High, r)
        c == df.Close[r]
    IN IF lo = NaN THEN NaNf
       ELSE IF hi = NaN THEN NaNf
       ELSE IF c = NaN THEN NaNf
       ELSE IF hi = lo THEN <<Sign(c - lo), 0>>
       ELSE Norm(100 * (c - lo), hi - lo)

\* .ewm(com=2, adjust=False).mean(): the weighted average after m rows of
\* decay since the last observation takes in the observation cur:
\*   weighted = (old_wt * weighted + alpha * cur) / (old_wt + alpha)
\* with alpha = 1/(1 + com) and old_wt = (com/(1 + com))^m
Blend(weighted, cur, m) ==
    Over(Plus(Scale(weighted, Pow(KDJ_COM, m)), Scale(cur, Pow(KDJ_COM + 1, m - 1))),
         Pow(KDJ_COM, m) + Pow(KDJ_COM + 1, m - 1))

\* the values as the window kernel is given them: pandas turns an infinite
\* value into NaN first, so only a finite number is an observation
Prepared(x) == IF x[2] = 0 THEN NaNf ELSE x

\* one row of the ewm loop: st.w is the weighted average so far (NaN before
\* the first observation), st.m the rows of decay since the last observation.
\* A row that is no observation keeps the average and decays old_wt; an
\* observation equal to the average leaves it as it is
EwmStep(st, cur) ==
    IF IsNaNf(st.w) THEN [w |-> Prepared(cur), m |-> 0]
    ELSE IF IsNaNf(Prepared(cur)) THEN [w |-> st.w, m |-> st.m + 1]
    ELSE [w |-> IF st.w = cur THEN st.w ELSE Blend(st.w, cur, st.m + 1), m |-> 0]

RECURSIVE EwmStates(_, _)
EwmStates(vals, n) ==
    IF n = 0 THEN <<>>
    ELSE LET before == EwmStates(vals, n - 1)
         IN Append(before,
                   EwmStep(IF n = 1 THEN [w |-> NaNf, m |-> 0] ELSE before[n - 1],
                           vals[n]))

\* the column vals.ewm(com=2, adjust=False).mean()
Ewm(vals) ==
    LET states == EwmStates(vals, Len(vals))
    IN [r \in 1..Len(vals) |-> states[r].w]

\* lines 197-201, 208-213: the indicator columns
RSIColumn(df) == [r \in 1..df.len |-> RSI(df.Close, r)]
RSVColumn(df) == [r \in 1..df.len |-> RSV(df, r)]
KColumn(df) == Ewm(RSVColumn(df))
DColumn(kcol) == Ewm(kcol)
\* line 213: J = 3 * K - 2 * D
JValue(kv, dv) == Plus(Scale(kv, 3), Scale(dv, 0 - 2))

\* variant: the floor is the scanner's 15 bars
calculate_technicals_scanner_floor(df) ==
    IF df.len < MIN_BARS THEN None
    ELSE LET kcol == KColumn(df)
             dcol == DColumn(kcol)
         IN <<[len |-> df.len, Close |-> df.Close, High |-> df.High, Low |-> df.Low,
               SMA50 |-> [r \in 1..df.len |-> SMA(df.Close, SMA_FAST, r)],
               SMA200 |-> [r \in 1..df.len |-> SMA(df.Close, SMA_SLOW, r)],
               RSI |-> RSIColumn(df),
               K |-> kcol,
               D |-> dcol,
               J |-> [r \in 1..df.len |-> JValue(kcol[r], dcol[r])]]>>

\* lines 191-215: None for fewer than 50 bars, else the table with its
\* indicator columns
calculate_technicals(df) ==
    IF df.len < TECH_MIN_BARS THEN None
    ELSE LET kcol == KColumn(df)
             dcol == DColumn(kcol)
         IN <<[len |-> df.len, Close |-> df.Close, High |-> df.High, Low |-> df.Low,
               SMA50 |-> [r \in 1..df.len |-> SMA(df.Close, SMA_FAST, r)],
               SMA200 |-> [r \in 1..df.len |-> SMA(df.Close, SMA_SLOW, r)],
               RSI |-> RSIColumn(df),
               K |-> kcol,
               D |-> dcol,
               J |-> [r \in 1..df.len |-> JValue(kcol[r], dcol[r])]]>>

-----------------------------------------------------------------------------
(* The environment: what the three external providers may answer *)

\* the symbol tables the universe provider may serve
ProviderTables ==
    { [Symbol |-> << <<"M","M","M">>, <<"B","R","K",".","B">>, <<"A","O","S">> >>],
      [Symbol |-> << <<"M","M","M">>, <<"A","O","S">>, <<"M","M","M">> >>],
      [Symbol |-> <<>>],
      [Security |-> << <<"3","M">> >>] }

\* requests.get raises; the page has no table; the page has tables
ProviderResponses ==
    { [kind |-> "error"], [kind |-> "html", tables |-> <<>>] }
    \cup { [kind |-> "html", tables |-> <<t>>] : t \in ProviderTables }

\* a price series of NBars bars starting at 100: a rise of 3 on every row
\* older than the trailing window, then flat, then u rows up by 1 and
\* Moves - u rows down by 1
GenDelta(u, r) ==
    IF r <= NBars - 1 - Moves
    THEN (IF r <= NBars - 1 - RSI_WINDOW THEN 3 ELSE 0)
    ELSE IF r <= NBars - 1 - Moves + u THEN 1 ELSE 0 - 1

RECURSIVE GenPrice(_, _)
GenPrice(u, r) == IF r = 1 THEN 100 ELSE GenPrice(u, r - 1) + GenDelta(u, r - 1)

GenSeries(u) == [r \in 1..NBars |-> GenPrice(u, r)]

Frame(close) == [len |-> Len(close), Close |-> close]

\* the generated frames, one per number of rising rows
GenFrames == [u \in 0..Moves |-> Frame(GenSeries(u))]

GenFrame(u) == GenFrames[u]

\* a zero-volatility series
FlatFrame == Frame([r \in 1..NBars |-> 100])
\* a falling series one bar short of the 15-bar floor
ShortFrame == Frame(SubSeq(GenSeries(0), NBars - MIN_BARS + 2, NBars))
\* a ticker of the batch whose rows carry no prices
NaNFrame == Frame([r \in 1..NBars |-> NaN])
\* a falling series whose latest row carries no price
LastNaNFrame == Frame([r \in 1..NBars |-> IF r = NBars THEN NaN ELSE GenPrice(0, r)])
\* a frame without a Close column
NoCloseFrame == [len |-> NBars]
\* a frame without rows
EmptyFrame == Frame(<<>>)
\* a ticker with one bar of history less than the 15-bar floor, in a batch of
\* NBars rows: its rows before its first bar carry no price
YoungFrame ==
    Frame([r \in 1..NBars |-> IF r <= NBars - MIN_BARS + 1 THEN NaN ELSE GenPrice(0, r)])

Frames ==
    {GenFrame(u) : u \in 0..Moves}
    \cup {FlatFrame, ShortFrame, NaNFrame, LastNaNFrame, NoCloseFrame, EmptyFrame,
          YoungFrame}

\* the last n rows of a frame
LastRows(df, n) ==
    IF n = df.len THEN df ELSE Frame(SubSeq(df.Close, df.len - n + 1, df.len))

\* yf.Ticker(t).info raises, or is a dict: without marketCap, with None,
\* or with a number
Answers ==
    { [raises |-> TRUE, exc |-> "HTTPError"],
      [raises |-> FALSE, info |-> [quoteType |-> "EQUITY"]] }
    \cup { [raises |-> FALSE, info |-> [marketCap |-> c]] :
             c \in {<<>>, <<0>>, <<MIN_MARKET_CAP>>, <<MIN_MARKET_CAP + 1>>} }

GoodAnswer == [raises |-> FALSE, info |-> [marketCap |-> <<MIN_MARKET_CAP + 1>>]]

FirstIndex(u, t) == CHOOSE n \in 1..Len(u) : u[n] = t /\ \A m \in 1..(n - 1) : u[m] # t

\* the series shapes of the tickers at odd and at even places of a universe
Profiles == {<<2, 1>>, <<8, 9>>, <<1, 9>>}

\* the frames of a batch over universe u: the ticker at place s has frame f
\* (or none), the others follow profile p.  The batch is one table with one
\* index, so data[t] has the same rows for every ticker t: the rows of f
BatchFrames(u, s, absent, f, p) ==
    [t \in Range(u) \ (IF absent THEN {u[s]} ELSE {}) |->
        IF t = u[s] THEN f
        ELSE LastRows(GenFrame(IF FirstIndex(u, t) % 2 = 1 THEN p[1] ELSE p[2]), f.len)]

\* the download found no price history at all
NoHistory(batch, u) ==
    \A n \in 1..Len(u) : HasFrame(batch, u[n]) => FrameOf(batch, u[n]).len = 0

\* the fundamentals provider over universe u: the ticker at place s answers
\* a, the others report a market cap above the floor
Fundamentals(u, s, a) == [t \in Range(u) |-> IF t = u[s] THEN a ELSE GoodAnswer]

\* the batch and the fundamentals one scan over universe u may meet
Worlds(u) ==
    { <<[multi |-> TRUE, frames |-> BatchFrames(u, s, FALSE, GenFrame(m), p)],
        Fundamentals(u, s, a)>> :
        s \in 1..Len(u), m \in 0..Moves, p \in Profiles, a \in Answers }
    \cup { <<[multi |-> TRUE, frames |-> BatchFrames(u, s, FALSE, f, p)],
             Fundamentals(u, s, GoodAnswer)>> :
        s \in 1..Len(u), f \in Frames, p \in Profiles }
    \cup { <<[multi |-> TRUE, frames |-> BatchFrames(u, s, TRUE, FlatFrame, p)],
             Fundamentals(u, s, GoodAnswer)>> :
        s \in 1..Len(u), p \in Profiles }
    \cup { <<[multi |-> TRUE, frames |-> [t \in Range(u) |-> EmptyFrame]],
             Fundamentals(u, 1, GoodAnswer)>> }
    \cup { <<[multi |-> FALSE, frame |-> f], Fundamentals(u, s, a)>> :
        s \in 1..Len(u), f \in {GenFrame(2), GenFrame(8), FlatFrame, EmptyFrame, ShortFrame},
        a \in Answers }

\* the price histories the analyst page may be given: len bars, flat at 100
\* but for Swing consecutive rows starting at row at, whose closes move by
\* move[1], ..., move[Swing]; kind tells the highs and lows:
\*   "tight"  High = Low = Close on every bar
\*   "wide"   High = Close + 1, Low = Close - 1
\*   "band"   High = 100 + Swing, Low = 100 - Swing on every bar
\*   "stale"  High = Low = 100 whatever the close
HistClose(at, move, r) ==
    100 + SumPrices(move, 1, IF r < at THEN 0
                             ELSE IF r - at + 1 > Swing THEN Swing
                             ELSE r - at + 1)

HistHigh(at, move, kind, r) ==
    IF kind = "stale" THEN 100
    ELSE IF kind = "band" THEN 100 + Swing
    ELSE HistClose(at, move, r) + (IF kind = "wide" THEN 1 ELSE 0)

HistLow(at, move, kind, r) ==
    IF kind = "stale" THEN 100
    ELSE IF kind = "band" THEN 100 - Swing
    ELSE HistClose(at, move, r) - (IF kind = "wide" THEN 1 ELSE 0)

Hist(len, at, move, kind) ==
    [len |-> len,
     Close |-> [r \in 1..len |-> HistClose(at, move, r)],
     High |-> [r \in 1..len |-> HistHigh(at, move, kind, r)],
     Low |-> [r \in 1..len |-> HistLow(at, move, kind, r)]]

HistLens == {RSI_WINDOW, TECH_MIN_BARS - 1} \cup (TECH_MIN_BARS..TechBars)

\* where the moving rows start and the kinds met there: at the head of the
\* history, before its last KDJ_WINDOW bars (which are then flat), at its tail
HistShapes(len) ==
    { <<2, kind>> : kind \in {"band", "stale"} }
    \cup { <<len - Swing - KDJ_WINDOW + 1, kind>> : kind \in {"tight", "stale"} }
    \cup { <<len - Swing + 1, kind>> : kind \in {"tight", "wide", "band", "stale"} }

Histories ==
    {Hist(0, 2, [j \in 1..Swing |-> 0], "tight")}
    \cup UNION { { Hist(len, shape[1], move, shape[2]) :
                     shape \in {sh \in HistShapes(len) : sh[1] >= 2},
                     move \in [1..Swing -> {0 - 1, 0, 1}] } :
                 len \in HistLens }

-----------------------------------------------------------------------------
(* The program *)

Init ==
    /\ pc = "start"
    /\ response = None
    /\ tickers = <<>>
    /\ data = None
    /\ fundamentals = None
    /\ i = 1
    /\ rsi_candidates = <<>>
    /\ is_oversold = TRUE
    /\ sorted_list = <<>>
    /\ k = 1
    /\ verified = <<>>
    /\ fetched = <<>>
    /\ oversold_df = None
    /\ overbought_df = None
    /\ result = None
    /\ page = None
    /\ hist = None
    /\ df_tech = None

\* lines 106-109: the universe provider answers, inside get_sp500_tickers
ProviderAnswers ==
    /\ pc = "start"
    /\ \E resp \in ProviderResponses : response' = <<resp>>
    /\ pc' = "tickers"
    /\ UNCHANGED <<tickers, data, fundamentals, i, rsi_candidates, is_oversold,
                   sorted_list, k, verified, fetched, oversold_df, overbought_df,
                   result, page, hist, df_tech>>

\* line 120: tickers = get_sp500_tickers(); its locals end with the call
GetTickers ==
    /\ pc = "tickers"
    /\ tickers' = get_sp500_tickers(response[1])
    /\ response' = None
    /\ pc' = "download"
    /\ UNCHANGED <<data, fundamentals, i, rsi_candidates, is_oversold, sorted_list,
                   k, verified, fetched, oversold_df, overbought_df, result, page,
                   hist, df_tech>>

\* line 123: yf.download raises; nothing catches it, up to the page
DownloadRaises ==
    /\ pc = "download"
    /\ pc' = "raised"
    /\ UNCHANGED <<response, tickers, data, fundamentals, i, rsi_candidates,
                   is_oversold, sorted_list, k, verified, fetched, oversold_df,
                   overbought_df, result, page, hist, df_tech>>

\* lines 123-125: yf.download returns a batch
Download ==
    /\ pc = "download"
    /\ \E w \in Worlds(tickers) :
        /\ data' = <<w[1]>>
        /\ fundamentals' = w[2]
    /\ rsi_candidates' = <<>>
    /\ i' = 1
    /\ pc' = "rsi"
    /\ UNCHANGED <<response, tickers, is_oversold, sorted_list, k, verified,
                   fetched, oversold_df, overbought_df, result, page,
                   hist, df_tech>>

\* lines 128-156: one pass of the loop over tickers
RsiLoop ==
    /\ pc = "rsi"
    /\ i <= Len(tickers)
    /\ IF TickerOutcome(data[1], tickers[i]) = "raised" /\ ~LoopCatches("KeyError")
       THEN pc' = "raised" /\ UNCHANGED <<rsi_candidates, i>>
       ELSE /\ rsi_candidates' = RsiLoopBody(rsi_candidates, data[1], tickers[i])
            /\ i' = i + 1
            /\ pc' = pc
    /\ UNCHANGED <<response, tickers, data, fundamentals, is_oversold,
                   sorted_list, k, verified, fetched, oversold_df, overbought_df,
                   result, page, hist, df_tech>>

\* lines 184 and 185 call get_verified_list; lines 161-163 start it
CallVerifiedList ==
    /\ \/ pc = "rsi" /\ i > Len(tickers) /\ is_oversold' = TRUE
       \/ pc = "overbought" /\ is_oversold' = FALSE
    /\ sorted_list' = Sorted(rsi_candidates, is_oversold')
    /\ verified' = <<>>
    /\ k' = 1
    /\ pc' = "walk"
    /\ UNCHANGED <<response, tickers, data, fundamentals, i, rsi_candidates,
                   fetched, oversold_df, overbought_df, result, page,
                   hist, df_tech>>

\* the item the walk looks at, and what the pass does with it
Item == rsi_candidates[sorted_list[k]]
Outcome == WalkOutcome(Item, Len(verified), is_oversold, fundamentals[Item.Ticker])

\* the record of one market-cap fetch (line 173)
Fetch == [Ticker |-> Item.Ticker, oversold |-> is_oversold, rank |-> k,
          collected |-> Len(verified), RSI |-> Item.RSI]

\* lines 164-181: one pass of the walk that does not break
Walk ==
    /\ pc = "walk"
    /\ k <= Len(sorted_list)
    /\ Outcome # "break"
    /\ fetched' = IF Outcome = "filtered" THEN fetched ELSE Append(fetched, Fetch)
    /\ IF Outcome = "raised" /\ ~WalkCatches(fundamentals[Item.Ticker].exc)
       THEN pc' = "raised" /\ UNCHANGED <<k, rsi_candidates, verified>>
       ELSE /\ pc' = pc
            /\ k' = k + 1
            /\ IF Outcome = "kept"
               THEN /\ rsi_candidates' =
                         [rsi_candidates EXCEPT ![sorted_list[k]] =
                             SetMarketCap(Item, MktCap(fundamentals[Item.Ticker].info))]
                    /\ verified' = Append(verified, sorted_list[k])
               ELSE UNCHANGED <<rsi_candidates, verified>>
    /\ UNCHANGED <<response, tickers, data, fundamentals, i, is_oversold,
                   sorted_list, oversold_df, overbought_df, result, page,
                   hist, df_tech>>

\* lines 165 and 182: the walk breaks or runs out, the list is returned
ReturnVerifiedList ==
    /\ pc = "walk"
    /\ IF k > Len(sorted_list) THEN TRUE ELSE Outcome = "break"
    /\ IF is_oversold
       THEN /\ oversold_df' = <<DataFrame(verified, rsi_candidates)>>
            /\ pc' = "overbought"
            /\ UNCHANGED overbought_df
       ELSE /\ overbought_df' = <<DataFrame(verified, rsi_candidates)>>
            /\ pc' = "return"
            /\ UNCHANGED oversold_df
    /\ UNCHANGED <<response, tickers, data, fundamentals, i, rsi_candidates,
                   is_oversold, sorted_list, k, verified, fetched, result, page,
                   hist, df_tech>>

\* the count returned at line 187
ScannedCount == Len(tickers)

\* line 187
Return ==
    /\ pc = "return"
    /\ result' = <<[oversold |-> oversold_df[1], overbought |-> overbought_df[1],
                    count |-> ScannedCount]>>
    /\ pc' = "page"
    /\ UNCHANGED <<response, tickers, data, fundamentals, i, rsi_candidates,
                   is_oversold, sorted_list, k, verified, fetched, oversold_df,
                   overbought_df, page, hist, df_tech>>

\* lines 418-446: the page shows the result it was returned
PageShowsResult ==
    /\ pc = "page"
    /\ page' = <<[caption |-> result[1].count,
                  oversold_empty |-> result[1].oversold = <<>>,
                  overbought_empty |-> result[1].overbought = <<>>]>>
    /\ pc' = "done"
    /\ UNCHANGED <<response, tickers, data, fundamentals, i, rsi_candidates,
                   is_oversold, sorted_list, k, verified, fetched, oversold_df,
                   overbought_df, result, hist, df_tech>>

\* line 419: the call raised, the page shows no scan
PageFails ==
    /\ pc = "raised"
    /\ page' = <<[error |-> TRUE]>>
    /\ pc' = "failed"
    /\ UNCHANGED <<response, tickers, data, fundamentals, i, rsi_candidates,
                   is_oversold, sorted_list, k, verified, fetched, oversold_df,
                   overbought_df, result, hist, df_tech>>

\* line 493: hist = get_stock_history(selected_ticker, '2y')
GetHistory ==
    /\ pc = "start"
    /\ \E h \in Histories : hist' = <<h>>
    /\ pc' = "history"
    /\ UNCHANGED <<response, tickers, data, fundamentals, i, rsi_candidates,
                   is_oversold, sorted_list, k, verified, fetched, oversold_df,
                   overbought_df, result, page, df_tech>>

\* line 494: df_tech = calculate_technicals(hist.copy())
CalculateTechnicals ==
    /\ pc = "history"
    /\ df_tech' = calculate_technicals(hist[1])
    /\ pc' = "analysed"
    /\ UNCHANGED <<response, tickers, data, fundamentals, i, rsi_candidates,
                   is_oversold, sorted_list, k, verified, fetched, oversold_df,
                   overbought_df, result, page, hist>>

Next ==
    \/ ProviderAnswers
    \/ GetTickers
    \/ DownloadRaises
    \/ Download
    \/ RsiLoop
    \/ CallVerifiedList
    \/ Walk
    \/ ReturnVerifiedList
    \/ Return
    \/ PageShowsResult
    \/ PageFails
    \/ GetHistory
    \/ CalculateTechnicals

Spec == Init /\ [][Next]_vars

-----------------------------------------------------------------------------
(* Vocabulary of the properties *)

\* the lists the scan has returned so far
ReturnedLists ==
    (IF oversold_df = None THEN {} ELSE {<<TRUE, oversold_df[1]>>})
    \cup (IF overbought_df = None THEN {} ELSE {<<FALSE, overbought_df[1]>>})

\* ticker t is an entry of list df
Listed(t, df) == \E n \in 1..Len(df) : df[n].Ticker = t

\* the market cap the fundamentals provider reports for ticker t, if any
ReportedCap(t) ==
    IF fundamentals[t].raises THEN None
    ELSE IF "marketCap" \notin DOMAIN fundamentals[t].info THEN None
    ELSE fundamentals[t].info.marketCap

\* RSI value x is strictly below / strictly above the integer n
Below(x, n) == x[2] > 0 /\ x[1] < n * x[2]
Above(x, n) == x[2] > 0 /\ x[1] > n * x[2]

\* a row meets the demands of its list
RowQualifies(row, oversold) ==
    /\ IF oversold THEN Below(row.RSI, OVERSOLD_RSI) ELSE Above(row.RSI, OVERBOUGHT_RSI)
    /\ ReportedCap(row.Ticker) # None
    /\ ReportedCap(row.Ticker)[1] > MIN_MARKET_CAP

-----------------------------------------------------------------------------
\* C1: every entry of the oversold list has RSI < 30 and every entry of the
\* overbought list has RSI > 70, each with a fetched market cap above
\* 10,000,000 that is the cap the row carries; a candidate whose cap is
\* absent, zero or exactly 10,000,000, or whose RSI is exactly 30 or 70, is
\* in neither list.
C1_ListsMeetThresholds ==
    \A l \in ReturnedLists :
        /\ \A n \in 1..Len(l[2]) :
              /\ RowQualifies(l[2][n], l[1])
              /\ "MarketCap" \in DOMAIN l[2][n]
              /\ <<l[2][n].MarketCap>> = ReportedCap(l[2][n].Ticker)
        /\ \A c \in 1..Len(rsi_candidates) :
              (\/ ReportedCap(rsi_candidates[c].Ticker) \in {None, <<0>>, <<MIN_MARKET_CAP>>}
               \/ Same(rsi_candidates[c].RSI, <<OVERSOLD_RSI, 1>>)
               \/ Same(rsi_candidates[c].RSI, <<OVERBOUGHT_RSI, 1>>))
              => ~Listed(rsi_candidates[c].Ticker, l[2])

\* a finished scan with entries in both lists, and a candidate above the
\* overbought threshold whose reported cap is exactly the floor
C1_Witness ==
    /\ pc = "done"
    /\ result[1].oversold # <<>>
    /\ result[1].overbought # <<>>
    /\ \E c \in 1..Len(rsi_candidates) :
          /\ Above(rsi_candidates[c].RSI, OVERBOUGHT_RSI)
          /\ ReportedCap(rsi_candidates[c].Ticker) = <<MIN_MARKET_CAP>>

\* the qualifying candidates of a list in rank order, cut at the cap
RECURSIVE QualifyingRefs(_, _)
QualifyingRefs(refs, oversold) ==
    IF refs = <<>> THEN <<>>
    ELSE (IF RowQualifies(rsi_candidates[Head(refs)], oversold)
          THEN <<Head(refs)>> ELSE <<>>)
         \o QualifyingRefs(Tail(refs), oversold)

TopRefs(oversold) ==
    LET q == QualifyingRefs(Sorted(rsi_candidates, oversold), oversold)
    IN SubSeq(q, 1, IF Len(q) < MAX_RESULTS THEN Len(q) ELSE MAX_RESULTS)

\* the row of a kept candidate: its dict with the reported cap attached
KeptRow(c) ==
    [Ticker |-> c.Ticker, Price |-> c.Price, RSI |-> c.RSI,
     MarketCap |-> IF ReportedCap(c.Ticker) = None THEN 0 ELSE ReportedCap(c.Ticker)[1]]

\* C2: each returned list is exactly the first min(10, q) of the q qualifying
\* candidates in rank order: at most 10 entries, and no qualifying candidate
\* is passed over for one ranked after it.
C2_ListIsTopTen ==
    \A l \in ReturnedLists :
        /\ Len(l[2]) <= MAX_RESULTS
        /\ l[2] = DataFrame(TopRefs(l[1]), [c \in 1..Len(rsi_candidates) |->
                                                KeptRow(rsi_candidates[c])])

\* a finished scan with more than 10 qualifying oversold candidates
C2_Witness ==
    /\ pc = "done"
    /\ Len(QualifyingRefs(Sorted(rsi_candidates, TRUE), TRUE)) > MAX_RESULTS
    /\ Len(result[1].oversold) = MAX_RESULTS

\* a list of candidate references is in the order of its list
InRsiOrder(rows, oversold) ==
    \A m, n \in 1..Len(rows) :
        m < n => IF oversold
                 THEN rows[m].RSI[1] * rows[n].RSI[2] <= rows[n].RSI[1] * rows[m].RSI[2]
                 ELSE rows[m].RSI[1] * rows[n].RSI[2] >= rows[n].RSI[1] * rows[m].RSI[2]

\* C3: the oversold list is in non-decreasing and the overbought list in
\* non-increasing order of RSI, in the returned lists and in the list under
\* construction at every step of the walk.
C3_ListsSorted ==
    /\ \A l \in ReturnedLists : InRsiOrder(l[2], l[1])
    /\ pc = "walk" => InRsiOrder(DataFrame(verified, rsi_candidates), is_oversold)

\* a walk of the overbought list that has collected entries of different
\* RSI, after an oversold list of several entries was returned
C3_Witness ==
    /\ pc = "walk"
    /\ ~is_oversold
    /\ Len(oversold_df[1]) > 1
    /\ \E m, n \in 1..Len(verified) :
          ~Same(rsi_candidates[verified[m]].RSI, rsi_candidates[verified[n]].RSI)

\* the result the stepwise scan returns is the one the function gives
ScanRefinesFunction ==
    result # None => result[1] = get_market_scanner_data(tickers, data[1], fundamentals)

\* the bars of a ticker's series: its rows that carry a price
Bars(df) ==
    IF "Close" \notin DOMAIN df THEN df.len
    ELSE Cardinality({r \in 1..df.len : df.Close[r] # NaN})

\* the ticker is one to skip: it is absent from the batch, has fewer than 15
\* bars, raises in the RSI computation, or its latest RSI is NaN
Faulty(t) ==
    \/ ~HasFrame(data[1], t)
    \/ Bars(FrameOf(data[1], t)) < MIN_BARS
    \/ "Close" \notin DOMAIN FrameOf(data[1], t)
    \/ IsNaNf(RSI(FrameOf(data[1], t).Close, FrameOf(data[1], t).len))

NotFaulty(t) == ~Faulty(t)

\* the scan is at a step of its loops from which it goes on: the next ticker,
\* or the next item of the walk, is there, or the loop is over
InProgress ==
    /\ pc \in {"rsi", "walk", "overbought", "return", "page", "done"}
    /\ i \in 1..(Len(tickers) + 1)
    /\ pc = "rsi" => Len(rsi_candidates) < i
    /\ pc = "walk" =>
          /\ k \in 1..(Len(sorted_list) + 1)
          /\ Len(sorted_list) = Len(rsi_candidates)
          /\ Len(verified) < k
    /\ (pc = "overbought") = (oversold_df # None /\ overbought_df = None /\ pc # "walk")
    /\ pc \in {"return", "page", "done"} => oversold_df # None /\ overbought_df # None
    /\ pc \in {"page", "done"} => result # None
    /\ pc = "done" => page # None

\* C4 (as claimed): once the batch download has returned, no exception ends
\* the scan: it stays on its way to the return and the page; a ticker that is
\* absent from the batch, has fewer than 15 bars, raises in the RSI
\* computation or has a NaN latest RSI is skipped, and the two lists
\* returned are the lists of a scan over the universe without such tickers.
C4_FaultyTickersSkipped ==
    data # None =>
        /\ InProgress
        /\ pc = "page" =>
              LET clean == get_market_scanner_data(SelectSeq(tickers, NotFaulty),
                                                   data[1], fundamentals)
              IN /\ result[1].oversold = clean.oversold
                 /\ result[1].overbought = clean.overbought

\* the ticker yielded a usable price series: it is in the batch with at
\* least 15 bars
Usable(t) == HasFrame(data[1], t) /\ Bars(FrameOf(data[1], t)) >= MIN_BARS

\* C5 (as claimed): the count returned with the result is the number of
\* tickers of the universe that yielded a usable price series.
C5_CountIsUsableTickers ==
    result # None =>
        result[1].count = Cardinality({n \in 1..Len(tickers) : Usable(tickers[n])})

\* C6 (as claimed): when the batch download yields no price history at all,
\* the scan returns no result and the page shows no scan.
C6_BatchFailureSurfaces ==
    (data # None /\ NoHistory(data[1], tickers)) =>
        /\ result = None
        /\ pc \notin {"return", "page", "done"}

\* the item under the walk passes the cap test and the RSI filter of its
\* list, and its market-cap lookup fails
FetchFails ==
    /\ pc = "walk"
    /\ k <= Len(sorted_list)
    /\ Len(verified) < MAX_RESULTS
    /\ IF is_oversold THEN Below(Item.RSI, OVERSOLD_RSI)
       ELSE Above(Item.RSI, OVERBOUGHT_RSI)
    /\ fundamentals[Item.Ticker].raises

\* C7: a failing market-cap lookup does not escape the scan: the walk goes
\* on to the next item in rank order with the list it has built unchanged,
\* and the candidate is not in the list.
C7_FetchFailureSkipsCandidate ==
    [][FetchFails =>
          /\ pc' = "walk"
          /\ k' = k + 1
          /\ sorted_list' = sorted_list
          /\ verified' = verified
          /\ rsi_candidates' = rsi_candidates
          /\ fetched' = Append(fetched, Fetch)]_vars

\* the walk has passed an item whose lookup failed, holds entries collected
\* before it, and has a further item to look at
C7_Witness ==
    /\ pc = "walk"
    /\ k > 1
    /\ k <= Len(sorted_list)
    /\ verified # <<>>
    /\ fetched # <<>>
    /\ fetched[Len(fetched)].rank = k - 1
    /\ fetched[Len(fetched)].oversold = is_oversold
    /\ fundamentals[fetched[Len(fetched)].Ticker].raises

\* C8: every market-cap fetch is for a candidate that meets the RSI threshold
\* of the list being walked and is issued while the list holds fewer than 10
\* entries; fetches follow the rank order, the oversold walk first.
C8_FetchesLazyInRankOrder ==
    /\ \A n \in 1..Len(fetched) :
          /\ fetched[n].collected < MAX_RESULTS
          /\ IF fetched[n].oversold THEN Below(fetched[n].RSI, OVERSOLD_RSI)
             ELSE Above(fetched[n].RSI, OVERBOUGHT_RSI)
    /\ \A m, n \in 1..Len(fetched) :
          m < n =>
             /\ fetched[n].oversold => fetched[m].oversold
             /\ fetched[m].oversold = fetched[n].oversold =>
                   /\ fetched[m].rank < fetched[n].rank
                   /\ fetched[m].collected <= fetched[n].collected
                   /\ InRsiOrder(<<fetched[m], fetched[n]>>, fetched[n].oversold)

\* a finished scan whose oversold list is full, with more candidates below 30
\* than oversold fetches, and a candidate that meets neither threshold
C8_Witness ==
    /\ pc = "done"
    /\ Len(result[1].oversold) = MAX_RESULTS
    /\ Cardinality({n \in 1..Len(fetched) : fetched[n].oversold})
          < Cardinality({c \in 1..Len(rsi_candidates) :
                            Below(rsi_candidates[c].RSI, OVERSOLD_RSI)})
    /\ \E c \in 1..Len(rsi_candidates) :
          /\ ~Below(rsi_candidates[c].RSI, OVERSOLD_RSI)
          /\ ~Above(rsi_candidates[c].RSI, OVERBOUGHT_RSI)

\* C9: when the universe provider fails, get_sp500_tickers returns the
\* default universe of 12 tickers and the scan goes on to the download; the
\* universe is not changed afterwards.
C9_ProviderFailureFallsBack ==
    [][/\ (pc = "tickers" /\ ProviderRaises(response[1])) =>
             /\ pc' = "download"
             /\ tickers' = DefaultTickers
             /\ Len(tickers') = 12
       /\ pc \notin {"start", "tickers"} => tickers' = tickers]_vars

\* a scan that finished over the default universe
C9_Witness ==
    /\ pc = "done"
    /\ tickers = DefaultTickers
    /\ result[1].count = 12

\* the frame has at least 15 bars and its trailing 14 deltas are all zero
FlatTail(df) ==
    /\ df.len >= MIN_BARS
    /\ "Close" \in DOMAIN df
    /\ \A r \in (df.len - RSI_WINDOW + 1)..df.len :
          ~DeltaIsNaN(df.Close, r) /\ Delta(df.Close, r) = 0

\* C10 (as claimed): a ticker whose trailing 14 deltas are all zero has RSI
\* 100 and is an RSI candidate of the scan.
C10_FlatSeriesRsi100 ==
    \A n \in 1..Len(tickers) :
        (/\ pc \notin {"start", "tickers", "download", "rsi", "raised", "failed"}
         /\ HasFrame(data[1], tickers[n])
         /\ FlatTail(FrameOf(data[1], tickers[n])))
        => /\ Same(RSI(FrameOf(data[1], tickers[n]).Close,
                        FrameOf(data[1], tickers[n]).len), <<100, 1>>)
           /\ \E c \in 1..Len(rsi_candidates) :
                 /\ rsi_candidates[c].Ticker = tickers[n]
                 /\ Same(rsi_candidates[c].RSI, <<100, 1>>)

-----------------------------------------------------------------------------
(* Vocabulary of the properties of calculate_technicals *)

\* calculate_technicals has returned a table
Analysed == pc = "analysed" /\ df_tech # None

\* RSI value x of row r of the column close is a number of [0, 100], and is
\* 100 exactly when the trailing loss average is zero and the trailing gain
\* average is positive
RsiLaw(x, close, r) ==
    /\ x[2] > 0
    /\ x[1] >= 0
    /\ x[1] <= 100 * x[2]
    /\ x[1] = 100 * x[2] <=>
          /\ RollingMean(FALSE, close, r)[1] = 0
          /\ RollingMean(TRUE, close, r)[1] > 0

\* the 9-bar highest high and lowest low of row r are equal
ZeroRange(df, r) ==
    IF r < KDJ_WINDOW THEN FALSE
    ELSE RollingMax(df.High, r) = RollingMin(df.Low, r)

\* one step of the smoothing from the previous value prev (absent at the
\* start) and the input x: prev * 2/3 + x * 1/3
Smoothed(prev, x) ==
    IF IsNaNf(prev) THEN x
    ELSE Over(Plus(Scale(prev, KDJ_COM), x), KDJ_COM + 1)

\* the value of column col at the row before r
Before(col, r) == IF r = 1 THEN NaNf ELSE col[r - 1]

-----------------------------------------------------------------------------
\* C11: at every row where RSI is present, in the table of
\* calculate_technicals and in every series the scanner computes RSI for,
\* RSI lies in [0, 100], and it is 100 if and only if the trailing-14 loss
\* average is zero and the trailing-14 gain average is positive; the RSI a
\* scan candidate carries when the loop ends is the RSI of the last row of
\* its series.
C11_RsiWithinBounds ==
    /\ Analysed =>
          \A r \in 1..df_tech[1].len :
              ~IsNaNf(df_tech[1].RSI[r]) =>
                  RsiLaw(df_tech[1].RSI[r], hist[1].Close, r)
    /\ (pc = "rsi" /\ i <= Len(tickers)) =>
          (TickerOutcome(data[1], tickers[i]) \in {"nan", "candidate"} =>
              LET close == FrameOf(data[1], tickers[i]).Close
              IN \A r \in 1..Len(close) :
                     LET x == RSI(close, r)
                     IN ~IsNaNf(x) => RsiLaw(x, close, r))
    /\ (pc = "rsi" /\ i > Len(tickers)) =>
          \A c \in 1..Len(rsi_candidates) :
              LET df == FrameOf(data[1], rsi_candidates[c].Ticker)
              IN /\ rsi_candidates[c].RSI = RSI(df.Close, df.len)
                 /\ RsiLaw(rsi_candidates[c].RSI, df.Close, df.len)

\* a table with a row whose RSI is 100 and a row whose RSI lies strictly
\* between 0 and 100
C11_Witness ==
    /\ Analysed
    /\ \E r \in 1..df_tech[1].len :
          /\ df_tech[1].RSI[r][2] > 0
          /\ df_tech[1].RSI[r][1] = 100 * df_tech[1].RSI[r][2]
    /\ \E r \in 1..df_tech[1].len :
          /\ df_tech[1].RSI[r][1] > 0
          /\ df_tech[1].RSI[r][1] < 100 * df_tech[1].RSI[r][2]

\* C12: for a price history of fewer than 50 bars calculate_technicals
\* returns None, never a table; a table it returns has at least 50 rows.
C12_ShortHistoryGivesNone ==
    pc = "analysed" =>
        /\ hist[1].len < TECH_MIN_BARS => df_tech = None
        /\ df_tech # None => df_tech[1].len >= TECH_MIN_BARS

\* a history of 49 bars whose close moves, answered with None
C12_Witness ==
    /\ pc = "analysed"
    /\ hist[1].len = TECH_MIN_BARS - 1
    /\ \E r \in 2..hist[1].len : hist[1].Close[r] # hist[1].Close[r - 1]
    /\ df_tech = None

\* C13 (as claimed): at every row of the table whose 9-bar highest high and
\* lowest low are equal, K is the smoothing step taken with RSV = 50, D the
\* smoothing step taken with that K, J is 3K - 2D, and all three are numbers.
C13_ZeroRangeUsesMidpoint ==
    Analysed =>
        \A r \in 1..df_tech[1].len :
            ZeroRange(hist[1], r) =>
                /\ df_tech[1].K[r][2] > 0
                /\ df_tech[1].K[r] = Smoothed(Before(df_tech[1].K, r), <<50, 1>>)
                /\ df_tech[1].D[r] = Smoothed(Before(df_tech[1].D, r), df_tech[1].K[r])
                /\ df_tech[1].J[r] = JValue(df_tech[1].K[r], df_tech[1].D[r])

\* C14 (as claimed): RSI is absent at each of the first 14 rows of the table.
C14_RsiAbsentBeforeBar15 ==
    Analysed =>
        \A r \in 1..RSI_WINDOW : IsNaNf(df_tech[1].RSI[r])

-----------------------------------------------------------------------------
(* Vocabulary of the properties of the two lists *)

NoDuplicates(u) == \A a, b \in 1..Len(u) : u[a] = u[b] => a = b

\* the place in the universe of the ticker of a row
Place(row) == FirstIndex(tickers, row.Ticker)

\* rows (or references) of equal RSI stand in the order of the candidates,
\* which is the order of the universe
TiesInOrder(refs) ==
    \A a, b \in 1..Len(refs) :
        (a < b /\ Same(rsi_candidates[refs[a]].RSI, rsi_candidates[refs[b]].RSI))
        => refs[a] < refs[b]

-----------------------------------------------------------------------------
\* C15: over a universe without duplicate symbols, no ticker is in both
\* lists and none is twice in a list, nor among the items a walk has kept
\* so far; a candidate that carries a market cap is left as it is by every
\* later step, and a walk that comes to it passes it by at the RSI filter,
\* without a fetch and without keeping it.
C15_ListsDisjointCapsApart ==
    /\ [](NoDuplicates(tickers) =>
            /\ \A l \in ReturnedLists :
                  \A m, n \in 1..Len(l[2]) :
                      l[2][m].Ticker = l[2][n].Ticker => m = n
            /\ (oversold_df # None /\ overbought_df # None) =>
                  \A n \in 1..Len(overbought_df[1]) :
                      ~Listed(overbought_df[1][n].Ticker, oversold_df[1])
            /\ (pc = "walk" /\ ~is_oversold) =>
                  \A n \in 1..Len(verified) :
                      ~Listed(rsi_candidates[verified[n]].Ticker, oversold_df[1]))
    /\ [][(NoDuplicates(tickers) /\ pc = "walk") =>
            \A c \in 1..Len(rsi_candidates) :
                "MarketCap" \in DOMAIN rsi_candidates[c] =>
                    /\ rsi_candidates'[c] = rsi_candidates[c]
                    /\ (k <= Len(sorted_list) /\ k' = k + 1 /\ sorted_list[k] = c) =>
                          /\ fetched' = fetched
                          /\ verified' = verified]_vars

\* a finished scan over a universe without duplicates, both lists with
\* entries, whose overbought walk passed an entry of the oversold list
C15_Witness ==
    /\ pc = "done"
    /\ NoDuplicates(tickers)
    /\ result[1].oversold # <<>>
    /\ result[1].overbought # <<>>
    /\ \E n \in 1..k - 1 :
          /\ n <= Len(sorted_list)
          /\ Listed(rsi_candidates[sorted_list[n]].Ticker, result[1].oversold)

\* C16: candidates of equal RSI are ranked, kept and (in the lists the scan
\* returns) listed in the order of the universe, in the ascending and in the descending ranking; when the
\* walk stops at the cap, an item it cut off whose RSI equals that of a kept
\* item comes later in the universe than the kept item.
C16_TiesKeepUniverseOrder ==
    /\ (pc = "walk" /\ k = 1 /\ NoDuplicates(tickers)) =>
          \A a, b \in 1..Len(rsi_candidates) :
              a < b => Place(rsi_candidates[a]) < Place(rsi_candidates[b])
    /\ pc = "walk" => TiesInOrder(sorted_list) /\ TiesInOrder(verified)
    /\ (pc = "walk" /\ Len(verified) >= MAX_RESULTS) =>
          \A n \in 1..Len(verified), m \in k..Len(sorted_list) :
              Same(rsi_candidates[verified[n]].RSI, rsi_candidates[sorted_list[m]].RSI)
              => verified[n] < sorted_list[m]
    /\ (pc = "page" /\ NoDuplicates(tickers)) =>
          \A l \in ReturnedLists :
              \A m, n \in 1..Len(l[2]) :
                  (m < n /\ Same(l[2][m].RSI, l[2][n].RSI))
                  => Place(l[2][m]) < Place(l[2][n])

\* the descending walk stopped at the cap in front of an item whose RSI
\* equals that of the last item it kept
C16_Witness ==
    /\ pc = "walk"
    /\ ~is_oversold
    /\ Len(verified) = MAX_RESULTS
    /\ k <= Len(sorted_list)
    /\ Same(Item.RSI, rsi_candidates[verified[MAX_RESULTS]].RSI)

====
